---- MODULE Spec2Model ----
(***************************************************************************)
(* wifi-signal-check: the shared ProgramState behind one tokio Mutex, the  *)
(* input_thread task that applies key commands to it, the main task's      *)
(* sampling/render loop, and create_device, which turns the interface list *)
(* and the per-interface BSS answers into display rows or an Error state.  *)
(***************************************************************************)
EXTENDS Integers, Sequences, FiniteSets, TLC

VARIABLES
    debug_assertions,  \* build configuration: cfg(debug_assertions)
    state,             \* the ProgramState inside Arc<Mutex<ProgramState>>
    lock,              \* holder of the Mutex: "none" or the task holding a guard
    inputPc,           \* position of the input_thread task
    key,               \* key code of the key press being handled
    mainPc,            \* position of the main task (the render loop)
    counter,           \* main's debug counter (u8)
    program_state,     \* main's per-tick copy of ProgramState
    wifi_interface,    \* main's interface list of the current tick
    hide_arg,          \* the hide_info argument passed to create_device
    bss_info,          \* what get_bss_info answers for each listed interface
    bss_calls,         \* get_bss_info calls made by the current tick
    result,            \* what create_device returned in the current tick
    frame              \* what terminal.draw was handed in the current tick

vars == <<debug_assertions, state, lock, inputPc, key, mainPc, counter,
          program_state, wifi_interface, hide_arg, bss_info, bss_calls, result,
          frame>>

----------------------------------------------------------------------------
(* Bounds of the model *)

\* longest interface list the wireless query returns
MaxIfaces == 2

(* Program constants *)

\* the debug build stops itself at this tick
DebugStopTick == 30

\* counter is a u8
U8Max == 255

GoodMax == 60

WarnMax == 100

SignalScale == 100

----------------------------------------------------------------------------
(* AppState and ProgramState (appstate.rs) *)

\* Option<T>: None is the empty sequence, Some(v) the sequence of v alone
None == <<>>

Some(v) == <<v>>

Unwrap(o) == o[1]

Main == [tag |-> "Main", h |-> "", d |-> ""]

Monitoring == [tag |-> "Monitoring", h |-> "", d |-> ""]

Error(h, d) == [tag |-> "Error", h |-> h, d |-> d]

InterfaceError == Error("wifi interface error", "wifi interface is not existed")

ConnectionError == Error("Internet connection failed", "Internet connection do not exists")

AppState == {Main, Monitoring, InterfaceError, ConnectionError}

change_state(st, s) == [st EXCEPT !.state = s]

change_running(st) == [st EXCEPT !.running = ~st.running]

\* a hide command that always shows
toggle_hide_info_Show(st) == [st EXCEPT !.hide_info = FALSE]

toggle_hide_info(st) == [st EXCEPT !.hide_info = ~st.hide_info]

----------------------------------------------------------------------------
(* Key commands of the input_thread task *)

KeyCodes == {"Esc", "q", "m", "h", "u", "x"}

OnEsc(st, k) == IF k = "Esc" THEN change_running(st) ELSE st

OnQ(st, k) == IF k = "q" THEN change_running(st) ELSE st

\* a faulty 'm': the view goes back to Main
OnM_ToMain(st, k) == IF k = "m" THEN change_state(st, Main) ELSE st

OnM(st, k) == IF k = "m" THEN change_state(st, Monitoring) ELSE st

OnH(st, k) == IF k = "h" THEN toggle_hide_info(st) ELSE st

OnU(st, k) == IF k = "u" THEN change_state(st, Monitoring) ELSE st

\* the five ifs of the key handler, in order
ApplyKey(st, k) == OnU(OnH(OnM(OnQ(OnEsc(st, k), k), k), k), k)

----------------------------------------------------------------------------
(* Telemetry: create_device and its helpers *)

\* division rounding toward minus infinity
FloorDiv(a, b) == a \div b

\* i32 division truncates toward zero
TruncDiv(a, b) == IF a >= 0 THEN a \div b ELSE -((-a) \div b)

Abs(x) == IF x < 0 THEN -x ELSE x

get_color_for_signal(signal) ==
    IF signal >= 0 /\ signal <= GoodMax THEN "Green"
    ELSE IF signal > GoodMax /\ signal <= WarnMax THEN "Yellow"
    ELSE "Red"

\* a displayed string: the bytes it was made of and how many times it went
\* through DefaultHasher (finish().to_string())
Digest(inf) == [inf EXCEPT !.hashes = @ + 1]

\* get_security_info with its branches exchanged
get_security_info_Exchanged(inf, sec) == IF sec THEN inf ELSE Digest(inf)

get_security_info(inf, sec) == IF sec THEN Digest(inf) ELSE inf

\* MacAddr6::to_string of the six bytes
MacString(m) == [hashes |-> 0, of |-> m]

Modifier(status) == IF status = 1 THEN "BOLD" ELSE "DIM"

MacLen == 6

SignalOf(bss) == IF bss.signal = None THEN 0 ELSE TruncDiv(Unwrap(bss.signal), SignalScale)

\* the three spans pushed for one interface
Row(interface, bss, hide_info) ==
    LET signal == SignalOf(bss)
        mac == get_security_info(MacString(Unwrap(interface.mac)), hide_info)
    IN  [name |-> Unwrap(interface.name),
         modifier |-> Modifier(Unwrap(bss.status)),
         signal |-> signal,
         color |-> get_color_for_signal(Abs(signal)),
         mac |-> get_security_info(mac, hide_info)]

Ok(text) == [tag |-> "Ok", text |-> text, err |-> Main]

Err(e) == [tag |-> "Err", text |-> <<>>, err |-> e]

Panic == [tag |-> "Panic", text |-> <<>>, err |-> Main]

NoResult == [tag |-> "None", text |-> <<>>, err |-> Main]

\* whether the loop body asks the socket for interface i's BSS
AsksBss(interface) == interface.name # None /\ interface.index # None

\* what one interface does to the sample: "skip", "row", "err" or "panic"
Step(interface, answer) ==
    IF interface.name = None THEN "skip"
    ELSE IF interface.index = None THEN "panic"
    ELSE IF ~answer.ok THEN "panic"
    ELSE IF answer.records = <<>> THEN "skip"
    ELSE IF answer.records[1].status = None THEN "err"
    ELSE IF ~interface.utf8 THEN "panic"
    ELSE IF ~answer.records[1].timing THEN "panic"
    ELSE IF interface.mac = None THEN "skip"
    ELSE IF Len(Unwrap(interface.mac)) # MacLen THEN "panic"
    ELSE IF ~interface.meta THEN "panic"
    ELSE "row"

RECURSIVE create_device_from(_, _, _, _, _)
create_device_from(intf, answers, hide_info, i, text) ==
    IF i > Len(intf) THEN Ok(text)
    ELSE LET s == Step(intf[i], answers[i])
         IN  CASE s = "skip" -> create_device_from(intf, answers, hide_info, i + 1, text)
               [] s = "row" -> create_device_from(intf, answers, hide_info, i + 1,
                                    Append(text, Row(intf[i], answers[i].records[1], hide_info)))
               [] s = "err" -> Err(ConnectionError)
               [] OTHER -> Panic

create_device(intf, answers, hide_info) ==
    create_device_from(intf, answers, hide_info, 1, <<>>)

\* number of get_bss_info calls create_device makes
RECURSIVE bss_calls_from(_, _, _)
bss_calls_from(intf, answers, i) ==
    IF i > Len(intf) THEN 0
    ELSE LET s == Step(intf[i], answers[i])
             asked == IF AsksBss(intf[i]) THEN 1 ELSE 0
         IN  IF s \in {"skip", "row"}
             THEN asked + bss_calls_from(intf, answers, i + 1)
             ELSE asked

----------------------------------------------------------------------------
(* What the wireless query can answer *)

Mac6 == <<2, 0, 0, 0, 0, 1>>

FullInterface(n) ==
    [name |-> Some(n), utf8 |-> TRUE, index |-> Some(1), mac |-> Some(Mac6), meta |-> TRUE]

Interfaces ==
    { FullInterface("wlan0"), FullInterface("wlan1"),
      [FullInterface("wlan0") EXCEPT !.name = None],
      [FullInterface("wlan0") EXCEPT !.index = None],
      [FullInterface("wlan0") EXCEPT !.utf8 = FALSE],
      [FullInterface("wlan0") EXCEPT !.mac = None],
      [FullInterface("wlan0") EXCEPT !.mac = Some(<<2, 0>>)],
      [FullInterface("wlan0") EXCEPT !.meta = FALSE] }

SeqsUpTo(S, n) == UNION { [1..k -> S] : k \in 0..n }

InterfaceLists == SeqsUpTo(Interfaces, MaxIfaces)

Record(status, signal, timing) ==
    [ok |-> TRUE, records |-> <<[status |-> status, signal |-> signal, timing |-> timing]>>]

TransportError == [ok |-> FALSE, records |-> <<>>]

NoRecord == [ok |-> TRUE, records |-> <<>>]

NoStatus == Record(None, Some(-4500), TRUE)

Associated == Record(Some(1), Some(-4500), TRUE)

\* get_bss_info: a transport error, no record, or one record
BssAnswers ==
    { TransportError, NoRecord, NoStatus, Associated,
      Record(Some(0), Some(-6150), TRUE),
      Record(Some(1), None, TRUE),
      Record(Some(1), Some(-4500), FALSE) }

\* the answers for a list; an interface that is never asked about has none
AnswersFor(intf, answers) ==
    { a \in [1..Len(intf) -> answers] :
        \A i \in 1..Len(intf) : ~AsksBss(intf[i]) => a[i] = NoRecord }

\* the interface lists and answers the loop is followed on
PolledInterfaces ==
    { FullInterface("wlan0"),
      [FullInterface("wlan0") EXCEPT !.name = None],
      [FullInterface("wlan0") EXCEPT !.index = None] }

PolledLists == SeqsUpTo(PolledInterfaces, MaxIfaces)

PolledAnswers == {TransportError, NoRecord, NoStatus, Associated}

----------------------------------------------------------------------------
(* Frames handed to terminal.draw *)

NoFrame == [view |-> "None", h |-> "", d |-> "", text |-> <<>>, hint |-> ""]

MainFrame == [NoFrame EXCEPT !.view = "Main"]

ErrorFrame(h, d) == [NoFrame EXCEPT !.view = "Error", !.h = h, !.d = d,
                                    !.hint = "For update menu press 'u'"]

hide_text(ps) ==
    IF ps.hide_info THEN "For show mac address press 'h'"
    ELSE "For hide mac address press 'h'"

MonitoringFrame(text, ps) ==
    [NoFrame EXCEPT !.view = "Monitoring", !.text = text, !.hint = hide_text(ps)]

----------------------------------------------------------------------------
(* Initial state: main.rs 88-92, 101-136 *)

InitialProgramState == [hide_info |-> TRUE, running |-> TRUE, state |-> Main]

Init ==
    /\ debug_assertions \in BOOLEAN
    /\ state = InitialProgramState
    /\ lock = "none"
    /\ inputPc = "while"
    /\ key = "none"
    /\ mainPc = "while"
    /\ counter = 0
    /\ program_state = InitialProgramState
    /\ wifi_interface = <<>>
    /\ hide_arg = TRUE
    /\ bss_info = <<>>
    /\ bss_calls = 0
    /\ result = NoResult
    /\ frame = NoFrame

inputVars == <<inputPc, key>>

mainVars == <<mainPc, counter, program_state, wifi_interface, hide_arg,
              bss_info, bss_calls, result, frame>>

\* the locals of one loop iteration
tickVars == <<program_state, wifi_interface, hide_arg, bss_info, bss_calls, result>>

NoTick ==
    /\ program_state' = InitialProgramState
    /\ wifi_interface' = <<>>
    /\ hide_arg' = TRUE
    /\ bss_info' = <<>>
    /\ bss_calls' = 0
    /\ result' = NoResult

----------------------------------------------------------------------------
(* The input_thread task: main.rs 105-133 *)

\* while state_task.lock().await.running
InputWhile ==
    /\ inputPc = "while"
    /\ lock = "none"
    /\ inputPc' = IF state.running THEN "read" ELSE "done"
    /\ UNCHANGED <<debug_assertions, state, lock, key, mainVars>>

\* event::read() returns a key press
InputKeyPress ==
    /\ inputPc = "read"
    /\ \E k \in KeyCodes : key' = k
    /\ inputPc' = "lock"
    /\ UNCHANGED <<debug_assertions, state, lock, mainVars>>

\* event::read() returns an event that is no key press
InputOtherEvent ==
    /\ inputPc = "read"
    /\ inputPc' = "while"
    /\ UNCHANGED <<debug_assertions, state, lock, key, mainVars>>

\* event::read() fails and unwrap panics the task
InputReadError ==
    /\ inputPc = "read"
    /\ inputPc' = "panicked"
    /\ UNCHANGED <<debug_assertions, state, lock, key, mainVars>>

\* let mut st = state_task.lock().await; the five ifs; the guard dropped
InputHandleKey ==
    /\ inputPc = "lock"
    /\ lock = "none"
    /\ state' = ApplyKey(state, key)
    /\ key' = "none"
    /\ inputPc' = "while"
    /\ UNCHANGED <<debug_assertions, lock, mainVars>>

InputTask ==
    \/ InputWhile
    \/ InputKeyPress
    \/ InputOtherEvent
    \/ InputReadError
    \/ InputHandleKey

----------------------------------------------------------------------------
(* The main task's loop: main.rs 139-252 *)

\* while state.clone().lock().await.running
MainWhile ==
    /\ mainPc = "while"
    /\ lock = "none"
    /\ mainPc' = IF state.running THEN "tick" ELSE "teardown"
    /\ frame' = NoFrame
    /\ UNCHANGED <<debug_assertions, state, lock, inputVars, counter, tickVars>>

\* counter += 1 on a u8: past U8Max the addition panics where the build
\* checks overflow and wraps to 0 where it does not
CounterOverflows(c) == c = U8Max

\* the cfg(debug_assertions) block: counter += 1; if counter == 30
\* { state.clone().lock().await.change_running() }
DebugBlock ==
    \/ /\ ~CounterOverflows(counter)
       /\ counter' = counter + 1
       /\ IF counter' = DebugStopTick
          THEN lock = "none" /\ state' = change_running(state)
          ELSE state' = state
       /\ mainPc' = "snapshot"
    \/ /\ CounterOverflows(counter)
       /\ \/ counter' = 0 /\ mainPc' = "snapshot"
          \/ counter' = counter /\ mainPc' = "overflowed"
       /\ state' = state

\* interval.tick().await, then the cfg(debug_assertions) block
MainTick ==
    /\ mainPc = "tick"
    /\ IF debug_assertions
       THEN DebugBlock
       ELSE mainPc' = "snapshot" /\ UNCHANGED <<counter, state>>
    /\ UNCHANGED <<debug_assertions, lock, inputVars, tickVars, frame>>

\* the loop's arms with Main polling like Monitoring
ArmOf_MainPolls(s) ==
    IF s.tag = "Error" THEN "draw_error" ELSE "get_interfaces"

\* the arm of match program_state.state
ArmOf(s) ==
    CASE s.tag = "Main" -> "draw_main"
      [] s.tag = "Error" -> "draw_error"
      [] s.tag = "Monitoring" -> "get_interfaces"

\* let program_state = *state.clone().lock().await
MainSnapshot ==
    /\ mainPc = "snapshot"
    /\ lock = "none"
    /\ program_state' = state
    /\ mainPc' = ArmOf(state.state)
    /\ UNCHANGED <<debug_assertions, state, lock, inputVars, counter,
                   wifi_interface, hide_arg, bss_info, bss_calls, result, frame>>

\* what the arm at pc hands to terminal.draw
FrameOf(pc) ==
    CASE pc = "draw_main" -> MainFrame
      [] pc = "draw_error" -> ErrorFrame(program_state.state.h, program_state.state.d)
      [] pc = "draw_monitoring" -> MonitoringFrame(result.text, program_state)

\* terminal.draw(..)?: the frame is drawn and the iteration ends, or the
\* io::Error leaves main
MainDraw ==
    /\ mainPc \in {"draw_main", "draw_error", "draw_monitoring"}
    /\ \E drawn \in BOOLEAN :
          IF drawn
          THEN frame' = FrameOf(mainPc) /\ mainPc' = "while"
          ELSE frame' = frame /\ mainPc' = "io_error"
    /\ NoTick
    /\ UNCHANGED <<debug_assertions, state, lock, inputVars, counter>>

\* where the loop goes once it has the interface list
AfterInterfaces(intf) ==
    IF Len(intf) = 1 THEN "interface_error" ELSE "call_create_device"

\* socket.get_interfaces_info().await.unwrap()
MainGetInterfaces ==
    /\ mainPc = "get_interfaces"
    /\ \/ /\ mainPc' = "panicked"
          /\ NoTick
       \/ \E intf \in PolledLists :
             /\ wifi_interface' = intf
             /\ mainPc' = AfterInterfaces(intf)
             /\ UNCHANGED <<program_state, hide_arg, bss_info, bss_calls, result>>
    /\ UNCHANGED <<debug_assertions, state, lock, inputVars, counter, frame>>

\* an interface error that sends the view back to Main
WrittenState_ToMain(pc) == IF pc = "interface_error" THEN Main ELSE result.err

\* the AppState a change_state call of the loop writes
WrittenState(pc) == IF pc = "interface_error" THEN InterfaceError ELSE result.err

\* after the change_state of line 204 the loop goes on to create_device;
\* after the one of line 215 it continues with the next iteration
AfterChangeState(pc) == IF pc = "interface_error" THEN "call_create_device" ELSE "while"

\* state.lock().await.change_state(..) at lines 204 and 215
MainChangeState ==
    /\ mainPc \in {"interface_error", "err_arm"}
    /\ lock = "none"
    /\ state' = change_state(state, WrittenState(mainPc))
    /\ mainPc' = AfterChangeState(mainPc)
    /\ IF mainPc' = "while" THEN NoTick ELSE UNCHANGED tickVars
    /\ UNCHANGED <<debug_assertions, lock, inputVars, counter, frame>>

\* the guard of state.lock().await.hide_info is a temporary of the match
\* scrutinee: it lives until the end of the let statement (line 218)
ScrutineeGuard == "main"

\* create_device(.., state.lock().await.hide_info): the argument is read
MainCallCreateDevice ==
    /\ mainPc = "call_create_device"
    /\ lock = "none"
    /\ hide_arg' = state.hide_info
    /\ lock' = ScrutineeGuard
    /\ mainPc' = "create_device"
    /\ UNCHANGED <<debug_assertions, state, inputVars, counter, program_state,
                   wifi_interface, bss_info, bss_calls, result, frame>>

\* the arm the match takes
ArmOfResult(r) ==
    CASE r.tag = "Ok" -> "draw_monitoring"
      [] r.tag = "Err" -> "err_arm"
      [] r.tag = "Panic" -> "panicked"

\* Ok ends the let statement and a panic unwinds: both drop the guard
LockAfter(r) == IF r.tag = "Err" THEN lock ELSE "none"

\* create_device(..).await and the match on what it returns
MainCreateDevice ==
    /\ mainPc = "create_device"
    /\ \E answers \in AnswersFor(wifi_interface, PolledAnswers) :
          /\ bss_info' = answers
          /\ result' = create_device(wifi_interface, answers, hide_arg)
          /\ bss_calls' = bss_calls_from(wifi_interface, answers, 1)
    /\ mainPc' = ArmOfResult(result')
    /\ lock' = LockAfter(result')
    /\ UNCHANGED <<debug_assertions, state, inputVars, counter, program_state,
                   wifi_interface, hide_arg, frame>>

\* disable_raw_mode()?; execute!(..)?; show_cursor()?; Ok(())
MainTeardown ==
    /\ mainPc = "teardown"
    /\ mainPc' \in {"exited", "io_error"}
    /\ UNCHANGED <<debug_assertions, state, lock, inputVars, counter, tickVars,
                   frame>>

MainTask ==
    \/ MainWhile
    \/ MainTick
    \/ MainSnapshot
    \/ MainDraw
    \/ MainGetInterfaces
    \/ MainChangeState
    \/ MainCallCreateDevice
    \/ MainCreateDevice
    \/ MainTeardown

Next == InputTask \/ MainTask

Spec == Init /\ [][Next]_vars

----------------------------------------------------------------------------
(* Fair scheduling: tokio keeps polling both tasks, the interval keeps      *)
(* ticking, the Mutex grants the lock in FIFO order (a waiter is never      *)
(* overtaken for ever), and event::read() eventually returns.               *)

InputRead == InputKeyPress \/ InputOtherEvent \/ InputReadError

Fairness ==
    /\ WF_vars(MainTask)
    /\ SF_vars(InputWhile)
    /\ SF_vars(InputHandleKey)
    /\ WF_vars(InputRead)

FairSpec == Init /\ [][Next]_vars /\ Fairness

----------------------------------------------------------------------------
(* create_device on its own: every interface list with every answer of the  *)
(* socket, under both values of hide_info                                   *)

InitSample ==
    /\ debug_assertions = FALSE
    /\ state = InitialProgramState
    /\ lock = "none"
    /\ inputPc = "while"
    /\ key = "none"
    /\ mainPc = "sample"
    /\ counter = 0
    /\ program_state = InitialProgramState
    /\ wifi_interface \in InterfaceLists
    /\ bss_info \in AnswersFor(wifi_interface, BssAnswers)
    /\ hide_arg \in BOOLEAN
    /\ bss_calls = 0
    /\ result = NoResult
    /\ frame = NoFrame

SampleCreateDevice ==
    /\ mainPc = "sample"
    /\ result' = create_device(wifi_interface, bss_info, hide_arg)
    /\ bss_calls' = bss_calls_from(wifi_interface, bss_info, 1)
    /\ mainPc' = "sampled"
    /\ UNCHANGED <<debug_assertions, state, lock, inputVars, counter,
                   program_state, wifi_interface, hide_arg, bss_info, frame>>

NextSample == SampleCreateDevice

SampleSpec == InitSample /\ [][NextSample]_vars

(* create_device on one associated interface, over the signal range *)

\* the largest raw signal magnitude followed, in hundredths of dBm
MaxSignal == 15100

Signals == {None} \cup { Some(s) : s \in (0 - MaxSignal)..MaxSignal }

InitSignal ==
    /\ debug_assertions = FALSE
    /\ state = InitialProgramState
    /\ lock = "none"
    /\ inputPc = "while"
    /\ key = "none"
    /\ mainPc = "sample"
    /\ counter = 0
    /\ program_state = InitialProgramState
    /\ wifi_interface = <<FullInterface("wlan0")>>
    /\ \E status \in {0, 1}, signal \in Signals :
          bss_info = <<Record(Some(status), signal, TRUE)>>
    /\ hide_arg \in BOOLEAN
    /\ bss_calls = 0
    /\ result = NoResult
    /\ frame = NoFrame

SignalSpec == InitSignal /\ [][NextSample]_vars

----------------------------------------------------------------------------
(* Claims *)

\* where each task asks for the Mutex
MainLockSites == {"while", "snapshot", "interface_error", "call_create_device", "err_arm"}

InputLockSites == {"while", "lock"}

\* C1: the State lock never deadlocks: whenever the input task or the render
\* loop asks for the Mutex, at the top of its loop, for the snapshot, for a
\* change_state (the Err arm's included) or after a key press, the lock is
\* eventually granted and the task moves on.
C1_LockAlwaysGranted ==
    /\ \A p \in MainLockSites : (mainPc = p) ~> (mainPc # p)
    /\ \A p \in InputLockSites : (inputPc = p) ~> (inputPc # p)

\* C2: in a Monitoring tick in which create_device returns Err(e), the loop
\* leaves the Err arm by a step that writes e as the view, draws nothing and
\* is back at the top of the loop, and it does leave the arm.
C2_ErrBecomesErrorView ==
    /\ [][(mainPc = "err_arm" /\ mainPc' # "err_arm")
            => (state'.state = result.err /\ frame' = NoFrame /\ mainPc' = "while")]_vars
    /\ (mainPc = "err_arm") ~> (mainPc = "while")

\* a telemetry failure the dashboard is meant to survive has happened in
\* this tick: the Err of create_device, or the interface error just written
RecoverableFailure ==
    \/ mainPc = "err_arm"
    \/ mainPc = "call_create_device" /\ Len(wifi_interface) = 1

\* C3: after a recoverable telemetry failure the input task still gets the
\* State lock and its commands apply: a pending 'u' or 'm' leads to the view
\* Monitoring, a pending 'q' or Esc to the key being handled and, unless the
\* loop was stopped already, to running = false.
C3_InputSurvivesFailure ==
    /\ (RecoverableFailure /\ inputPc = "lock" /\ key \in {"u", "m"})
          ~> (state.state = Monitoring)
    /\ (RecoverableFailure /\ inputPc = "lock" /\ key \in {"q", "Esc"})
          ~> (inputPc # "lock")

\* the step in which the input task handles the key press it has read
HandlesKey(keys) == inputPc = "lock" /\ inputPc' = "while" /\ key \in keys

\* C4: running changes only in a step that handles Esc or 'q', and such a
\* step leaves running false: nothing else, the render loop included,
\* changes running.
C4_RunningFalseIffQuitKey ==
    [][/\ (state'.running # state.running) => HandlesKey({"Esc", "q"})
       /\ HandlesKey({"Esc", "q"}) => ~state'.running]_vars

\* C5: a step that takes the view from Error to a view that is no Error is
\* the input task handling 'u' or 'm' and ends in Monitoring; no step of the
\* render loop takes the view out of Error.
C5_ErrorLeftOnlyByKey ==
    [][(state.state.tag = "Error" /\ state'.state.tag # "Error")
         => (HandlesKey({"u", "m"}) /\ state'.state = Monitoring)]_vars

\* the Error view was drawn in this iteration and the view is Monitoring
\* again: a 'u' or 'm' was handled while the view was Error
C5_Witness ==
    /\ frame.view = "Error"
    /\ state.state = Monitoring

\* C6: in a Monitoring tick whose interface list has length 1 the sample
\* stops at the interface error: no get_bss_info call is made and
\* create_device yields no rows to render.
C6_SingleInterfaceStops ==
    Len(wifi_interface) = 1 => (bss_calls = 0 /\ result.text = <<>>)

\* interface i is one the loop body looks at, and its answer is a record
\* without status
LacksStatus(i) ==
    /\ wifi_interface[i].name # None
    /\ bss_info[i].records # <<>>
    /\ bss_info[i].records[1].status = None

\* C7: if some interface with a name has an access-point record without a
\* status field, create_device returns the ConnectionError, whatever the
\* interfaces before it did.
C7_NoStatusIsConnectionError ==
    (mainPc = "sampled" /\ \E i \in 1..Len(wifi_interface) : LacksStatus(i))
        => result = Err(ConnectionError)

\* interface i is asked about and the socket answers with no record
LacksRecord(i) ==
    /\ AsksBss(wifi_interface[i])
    /\ bss_info[i] = NoRecord

\* C8: if some interface with a name has no access-point record at all,
\* create_device returns the ConnectionError.
C8_NoRecordIsConnectionError ==
    (mainPc = "sampled" /\ \E i \in 1..Len(wifi_interface) : LacksRecord(i))
        => result = Err(ConnectionError)

\* C9: no telemetry failure of a Monitoring tick (get_interfaces_info or
\* get_bss_info failing, an optional field absent) leaves the render loop as
\* a panic.
C9_NoUncaughtTelemetryFault == mainPc # "panicked"

MainEnded == {"exited", "io_error", "panicked", "overflowed"}

InputEnded == {"done", "panicked"}

\* C10: once running is false, the render loop leaves its loop and the input
\* task leaves its loop after the read in flight: both tasks end.
C10_BothTasksEnd ==
    (~state.running) ~> (mainPc \in MainEnded /\ inputPc \in InputEnded)

\* the interfaces create_device pushes a row for, in list order
RECURSIVE RowInterfaces(_, _, _)
RowInterfaces(intf, answers, i) ==
    IF i > Len(intf) THEN <<>>
    ELSE IF Step(intf[i], answers[i]) = "row"
         THEN <<i>> \o RowInterfaces(intf, answers, i + 1)
         ELSE RowInterfaces(intf, answers, i + 1)

\* anonymize of the spec: the value itself, or its digest taken once
Anonymized(value, hide) == IF hide THEN [value EXCEPT !.hashes = 1] ELSE value

\* C11: the MAC field of every row create_device returns is the interface's
\* canonical MAC string when hide_info is false and the digest of that
\* string, taken once, when hide_info is true.
C11_MacIsAnonymizedOnce ==
    (mainPc = "sampled" /\ result.tag = "Ok") =>
        LET rows == RowInterfaces(wifi_interface, bss_info, 1)
        IN  \A k \in 1..Len(result.text) :
               result.text[k].mac =
                  Anonymized(MacString(Unwrap(wifi_interface[rows[k]].mac)), hide_arg)

\* the forms a displayed MAC can take
RawForm(mac) == mac.hashes = 0

DigestForm(mac) == mac.hashes > 0

\* the key handler's 'h' flips the flag, and the call at line 210 passes the
\* flag as State holds it at that moment
FlagFollowsH ==
    /\ [][HandlesKey({"h"}) => state'.hide_info = ~state.hide_info]_vars
    /\ [][(mainPc = "call_create_device" /\ mainPc' = "create_device")
             => hide_arg' = state.hide_info]_vars

\* the rows of the sample just taken carry the signal and emphasis they would
\* carry under the other value of the flag
SignalAndEmphasisIgnoreFlag ==
    mainPc = "draw_monitoring" =>
        LET other == create_device(wifi_interface, bss_info, ~hide_arg).text
        IN  /\ Len(other) = Len(result.text)
            /\ \A k \in 1..Len(result.text) :
                  /\ result.text[k].signal = other[k].signal
                  /\ result.text[k].modifier = other[k].modifier

\* C12 as the spec states it: from the initial State, the rows sampled before
\* 'h' is pressed (flag still at its initial value) show the MAC raw and the
\* rows sampled after one 'h' (flag flipped) show it in digest form, signal and
\* emphasis being the same either way.
C12_HRawToDigest ==
    /\ state = InitialProgramState
    /\ FlagFollowsH
    /\ [](mainPc = "draw_monitoring" =>
            \A k \in 1..Len(result.text) :
               IF hide_arg = InitialProgramState.hide_info
               THEN RawForm(result.text[k].mac)
               ELSE DigestForm(result.text[k].mac))
    /\ []SignalAndEmphasisIgnoreFlag

\* C12 as the code has it: State starts with hide_info = true, so the rows
\* sampled before 'h' is pressed show the MAC in digest form and the rows
\* sampled after one 'h' show it raw, signal and emphasis being the same
\* either way.
C12_HDigestToRaw ==
    /\ state = InitialProgramState
    /\ FlagFollowsH
    /\ [](mainPc = "draw_monitoring" =>
            \A k \in 1..Len(result.text) :
               IF hide_arg = InitialProgramState.hide_info
               THEN DigestForm(result.text[k].mac)
               ELSE RawForm(result.text[k].mac))
    /\ []SignalAndEmphasisIgnoreFlag

\* a sample taken after one 'h': the flag is flipped and a row is about to be drawn
C12_Witness ==
    /\ mainPc = "draw_monitoring"
    /\ hide_arg # InitialProgramState.hide_info
    /\ state.hide_info = hide_arg
    /\ result.text # <<>>

\* the raw signal of the one record sampled, and the row made of it
SampledSignal == bss_info[1].records[1].signal

SampledRow == result.text[1]

\* q is s divided by 100 with the remainder on the side of s (i32 division)
IsQuotient(q, s) ==
    LET r == s - q * 100
    IN  /\ r > -100 /\ r < 100
        /\ (s >= 0 => r >= 0)
        /\ (s <= 0 => r <= 0)

Magnitude(x) == IF x < 0 THEN 0 - x ELSE x

\* C13: for every raw signal s in hundredths of dBm, negative ones included,
\* the displayed signal is s integer-divided by 100 (0 when the signal is
\* absent), and the colour follows the magnitude of the quotient: 0..=60
\* green, 61..=100 yellow, above 100 red; -4500 gives magnitude 45 and green,
\* -15000 gives magnitude 150 and red.
C13_SignalQuotientAndClass ==
    (mainPc = "sampled") =>
        /\ result.tag = "Ok" /\ Len(result.text) = 1
        /\ IF SampledSignal = None
           THEN SampledRow.signal = 0
           ELSE IsQuotient(SampledRow.signal, Unwrap(SampledSignal))
        /\ LET m == Magnitude(SampledRow.signal)
           IN  /\ (m <= 60) => SampledRow.color = "Green"
               /\ (m >= 61 /\ m <= 100) => SampledRow.color = "Yellow"
               /\ (m > 100) => SampledRow.color = "Red"
        /\ (SampledSignal = Some(-4500)) =>
              Magnitude(SampledRow.signal) = 45 /\ SampledRow.color = "Green"
        /\ (SampledSignal = Some(-15000)) =>
              Magnitude(SampledRow.signal) = 150 /\ SampledRow.color = "Red"

\* a negative signal that is not a multiple of 100, sampled and in the warn class
C13_Witness ==
    /\ mainPc = "sampled"
    /\ SampledSignal = Some(-6150)
    /\ SampledRow.signal = -61
    /\ SampledRow.color = "Yellow"

\* C14: the render loop performs no wireless query, list-interfaces or
\* get-access-point-info, while it holds the State lock, so the input task is
\* never kept waiting for the lock for the length of a query.
C14_NoQueryUnderLock ==
    mainPc \in {"get_interfaces", "create_device"} => lock # "main"

\* C15: every Monitoring frame is drawn from one snapshot of State: whatever
\* 'h' presses fall within the tick, the flag that selects the hint line is the
\* flag that was used to anonymize the MAC fields of the rows of that frame.
C15_HintAndRowsSameFlag ==
    frame.view = "Monitoring" =>
        \A k \in 1..Len(frame.text) :
           DigestForm(frame.text[k].mac) <=> (frame.hint = "For show mac address press 'h'")

\* the interfaces of the list that have a name, in list order
NamedInterfaces(intf) == SelectSeq(intf, LAMBDA i : i.name # None)

\* C16: a successful sample holds exactly one row for every interface that has
\* a name, in interface-list order, none left out and none moved; a partial row
\* set is never returned.
C16_OneRowPerNamedInterface ==
    (mainPc = "sampled" /\ result.tag = "Ok") =>
        LET named == NamedInterfaces(wifi_interface)
        IN  /\ Len(result.text) = Len(named)
            /\ \A k \in 1..Len(result.text) : result.text[k].name = Unwrap(named[k].name)

\* where the loop is while it runs the Monitoring arm
MonitoringArm ==
    {"get_interfaces", "interface_error", "call_create_device", "create_device",
     "err_arm", "draw_monitoring"}

\* C17: State starts as view Main, running true, hide flag true; while the
\* view is Main the render loop makes no wireless query and does not change
\* the view, and the only step that leaves Main is the input task handling
\* 'm' or 'u', which sets Monitoring.
C17_MainIsIdleUntilMOrU ==
    /\ state.state = Main /\ state.running /\ state.hide_info
    /\ [](state.state = Main => mainPc \notin MonitoringArm /\ bss_calls = 0)
    /\ [][(state.state = Main /\ state'.state # Main)
             => HandlesKey({"m", "u"}) /\ state'.state = Monitoring]_vars

\* the Main frame has been drawn and a key has then left Main
C17_Witness ==
    /\ frame.view = "Main"
    /\ state.state = Monitoring
    /\ mainPc = "while"

\* C18: each key command changes only its own field of State: 'h' flips the
\* hide flag and leaves view and running (two 'h' restore the flag), 'm' and
\* 'u' set the view to Monitoring and leave running and the hide flag, Esc and
\* 'q' change only running, and any other key leaves State as it was.
C18_KeyChangesOwnField ==
    /\ [][HandlesKey({"h"}) =>
            /\ state'.hide_info = ~state.hide_info
            /\ state'.state = state.state /\ state'.running = state.running]_vars
    /\ [][HandlesKey({"m", "u"}) =>
            /\ state'.state = Monitoring
            /\ state'.running = state.running /\ state'.hide_info = state.hide_info]_vars
    /\ [][HandlesKey({"Esc", "q"}) =>
            /\ state'.running # state.running
            /\ state'.state = state.state /\ state'.hide_info = state.hide_info]_vars
    /\ [][HandlesKey(KeyCodes \ {"h", "m", "u", "Esc", "q"}) => state' = state]_vars
    /\ [](ApplyKey(ApplyKey(state, "h"), "h") = state)

\* 'h', 'm' and 'q' have each been handled
C18_Witness ==
    /\ ~state.hide_info
    /\ state.state = Monitoring
    /\ ~state.running
    /\ inputPc = "while"

\* C19: stopping is stable: once running is false no step makes it true
\* again, whatever the interleaving of key presses (a second Esc or 'q' read by
\* the still waiting key read included) with the loop's own changes to running.
C19_StoppedStaysStopped == [][~state.running => ~state'.running]_vars

\* C20: the view never returns to Main: once it has left Main no key command
\* and no step of the render loop sets it to Main, so every later view is
\* Monitoring or Error.
C20_MainNeverReturns ==
    [][state.state # Main =>
          state'.state # Main /\ (state'.state = Monitoring \/ state'.state.tag = "Error")]_vars

\* the loop has written an Error view and drawn it
C20_Witness ==
    /\ state.state = InterfaceError
    /\ frame.view = "Error"

====
